---- MODULE Spec2Model ----
(***************************************************************************)
(* A model of the p5.js rainbow-shader sketch: the pillar grid and its     *)
(* wave-driven height scheduler (src/sketch.js initPillars, updatePillars, *)
(* easeInOutQuad), the per-frame cube mesh builder (createCube,            *)
(* computeNormal, makeFace, drawPillars, draw) and the palette blend of    *)
(* the fragment shader (src/fragment.frag main).                           *)
(*                                                                         *)
(* Numbers.  The sketch computes with JavaScript doubles and the shader    *)
(* with GLSL floats.  The model computes with exact rationals <<n, d>>     *)
(* (d > 0, gcd(n, d) = 1), so that every arithmetic expression of the      *)
(* source is translated operator for operator.                             *)
(***************************************************************************)
EXTENDS Integers, Sequences, FiniteSets, TLC

----------------------------------------------------------------------------
(* Exact rational arithmetic. *)

Abs(i) == IF i < 0 THEN -i ELSE i

RECURSIVE GCD(_, _)
GCD(a, b) == IF b = 0 THEN a ELSE GCD(b, a % b)

\* n/d in lowest terms with a positive denominator
R(n, d) ==
    LET g == GCD(Abs(n), Abs(d))
        s == IF d < 0 THEN -1 ELSE 1
    IN  <<(s * n) \div g, (s * d) \div g>>

I(n) == <<n, 1>>

Add(a, b) ==
    LET g == GCD(a[2], b[2])
        ka == b[2] \div g
        kb == a[2] \div g
    IN  R(a[1] * ka + b[1] * kb, a[2] * ka)

Neg(a) == <<-a[1], a[2]>>

Sub(a, b) == Add(a, Neg(b))

Mul(a, b) ==
    LET g1 == GCD(Abs(a[1]), b[2])
        g2 == GCD(Abs(b[1]), a[2])
    IN  IF a[1] = 0 \/ b[1] = 0 THEN <<0, 1>>
        ELSE <<(a[1] \div g1) * (b[1] \div g2), (a[2] \div g2) * (b[2] \div g1)>>

\* a / b for b # 0
Div(a, b) ==
    Mul(a, IF b[1] < 0 THEN <<-b[2], -b[1]>> ELSE <<b[2], b[1]>>)

Lt(a, b) == Sub(a, b)[1] < 0

Le(a, b) == Sub(a, b)[1] <= 0

\* the largest integer <= a
Floor(a) == a[1] \div a[2]

----------------------------------------------------------------------------
(* Program constants (src/sketch.js lines 8-11) and literals. *)

\* The sketch's grid is 30 x 30; the model explores a smaller grid of the
\* same construction.

rows == 1
cols == 2
spacing == 1
maxHeight == 25

Zero == I(0)
One == I(1)
Half == <<1, 2>>

----------------------------------------------------------------------------
(* Library functions of the host framework. *)

\* 2*pi, to two decimals
TwoPi == <<157, 25>>

\* Twelve directions of the unit circle with rational coordinates, one per
\* twelfth of a turn (the multiples of a quarter turn, exactly, and the
\* 3-4-5 directions beside them): <<cos, sin>>.
UnitCircle ==
    << <<I(1), I(0)>>,        <<<<4, 5>>, <<3, 5>>>>,    <<<<3, 5>>, <<4, 5>>>>,
       <<I(0), I(1)>>,        <<<<-3, 5>>, <<4, 5>>>>,   <<<<-4, 5>>, <<3, 5>>>>,
       <<I(-1), I(0)>>,       <<<<-4, 5>>, <<-3, 5>>>>,  <<<<-3, 5>>, <<-4, 5>>>>,
       <<I(0), I(-1)>>,       <<<<3, 5>>, <<-4, 5>>>>,   <<<<4, 5>>, <<-3, 5>>>> >>

\* The sampled direction nearest to the angle a (radians).
Direction(a) ==
    (Floor(Add(Div(Mul(a, I(12)), TwoPi), Half)) % 12) + 1

\* p5 sin and cos.  Their exact values are irrational; the model evaluates
\* them at the sampled direction nearest to the argument, which keeps
\* sin(0) = 0, cos(0) = 1, the range [-1, 1] with both ends attained, and
\* cos^2 + sin^2 = 1.
sin(a) == UnitCircle[Direction(a)][2]

cos(a) == UnitCircle[Direction(a)][1]

\* p5 map(value, start1, stop1, start2, stop2), without clamping
map(value, start1, stop1, start2, stop2) ==
    Add(Mul(Div(Sub(value, start1), Sub(stop1, start1)), Sub(stop2, start2)), start2)

\* p5 random(min, max): rand * (max - min) + min, rand the generator's next
\* value in [0, 1)
random(min, max, rand) == Add(Mul(rand, Sub(max, min)), min)

----------------------------------------------------------------------------
(* The wave scheduler. *)

\* easeInOutQuad without its second branch
easeInOutQuad_easeInOnly(t) == Mul(Mul(I(2), t), t)

\* lines 216-219
easeInOutQuad(t) ==
    IF Lt(t, Half)
    THEN Mul(Mul(I(2), t), t)
    ELSE Add(I(-1), Mul(Sub(I(4), Mul(I(2), t)), t))

\* combinedWave summing the three waves without averaging them (line 186)
combinedWave_sum(sin1, sin2, cos3, ampMultiplier) ==
    LET wave1 == Add(Mul(sin1, Half), Half)
        wave2 == Add(Mul(sin2, <<1, 4>>), Half)
        wave3 == Add(Mul(cos3, Mul(<<3, 10>>, ampMultiplier)), Half)
    IN  Add(Add(wave1, wave2), wave3)

\* lines 179-186: the three waves, from the values of their sine and cosine
\* terms, and their average
combinedWave(sin1, sin2, cos3, ampMultiplier) ==
    LET wave1 == Add(Mul(sin1, Half), Half)
        wave2 == Add(Mul(sin2, <<1, 4>>), Half)
        wave3 == Add(Mul(cos3, Mul(<<3, 10>>, ampMultiplier)), Half)
    IN  Div(Add(Add(wave1, wave2), wave3), I(3))

\* line 187
targetOf(combined) == Mul(Neg(combined), I(maxHeight))

\* waveTarget without the negation of line 187
waveTarget_positive(p, freqMultiplier, ampMultiplier, currentTime) ==
    Neg(targetOf(combinedWave(
        sin(Add(Add(Mul(p.x, Half), Mul(p.z, Half)), Mul(currentTime, I(3)))),
        sin(Add(Sub(Mul(Mul(p.x, <<3, 2>>), freqMultiplier),
                    Mul(Mul(p.z, <<6, 5>>), freqMultiplier)),
                Mul(currentTime, I(8)))),
        cos(Add(Mul(p.z, <<7, 10>>), Mul(currentTime, I(5)))),
        ampMultiplier)))

\* lines 177-187: the new target of pillar p
waveTarget(p, freqMultiplier, ampMultiplier, currentTime) ==
    targetOf(combinedWave(
        sin(Add(Add(Mul(p.x, Half), Mul(p.z, Half)), Mul(currentTime, I(3)))),
        sin(Add(Sub(Mul(Mul(p.x, <<3, 2>>), freqMultiplier),
                    Mul(Mul(p.z, <<6, 5>>), freqMultiplier)),
                Mul(currentTime, I(8)))),
        cos(Add(Mul(p.z, <<7, 10>>), Mul(currentTime, I(5)))),
        ampMultiplier))

\* updatePillar without the reset of t after a retarget (line 191)
updatePillar_staleT(p, dt, freqMultiplier, ampMultiplier, currentTime) ==
    LET elapsed == Add(p.elapsedTime, dt)
        t == Div(elapsed, p.animationDuration)
        q == IF Le(One, t)
             THEN [p EXCEPT !.startHeightFactor = p.targetHeightFactor,
                            !.targetHeightFactor =
                                waveTarget(p, freqMultiplier, ampMultiplier, currentTime),
                            !.elapsedTime = Zero]
             ELSE [p EXCEPT !.elapsedTime = elapsed]
    IN  [q EXCEPT !.currentHeightFactor =
            Add(q.startHeightFactor,
                Mul(Sub(q.targetHeightFactor, q.startHeightFactor), easeInOutQuad(t)))]

\* updatePillar without the hand-over of the old target to start (line 175)
updatePillar_keepStart(p, dt, freqMultiplier, ampMultiplier, currentTime) ==
    LET elapsed == Add(p.elapsedTime, dt)
        t == Div(elapsed, p.animationDuration)
        arrived == Le(One, t)
        q == IF arrived
             THEN [p EXCEPT !.targetHeightFactor =
                                waveTarget(p, freqMultiplier, ampMultiplier, currentTime),
                            !.elapsedTime = Zero]
             ELSE [p EXCEPT !.elapsedTime = elapsed]
        easedT == easeInOutQuad(IF arrived THEN Zero ELSE t)
    IN  [q EXCEPT !.currentHeightFactor =
            Add(q.startHeightFactor,
                Mul(Sub(q.targetHeightFactor, q.startHeightFactor), easedT))]

\* updatePillar carrying the surplus time over a retarget instead of
\* resetting elapsedTime to 0 (line 190)
updatePillar_carryOver(p, dt, freqMultiplier, ampMultiplier, currentTime) ==
    LET elapsed == Add(p.elapsedTime, dt)
        t == Div(elapsed, p.animationDuration)
        arrived == Le(One, t)
        q == IF arrived
             THEN [p EXCEPT !.startHeightFactor = p.targetHeightFactor,
                            !.targetHeightFactor =
                                waveTarget(p, freqMultiplier, ampMultiplier, currentTime),
                            !.elapsedTime = Sub(elapsed, p.animationDuration)]
             ELSE [p EXCEPT !.elapsedTime = elapsed]
        easedT == easeInOutQuad(IF arrived THEN Zero ELSE t)
    IN  [q EXCEPT !.currentHeightFactor =
            Add(q.startHeightFactor,
                Mul(Sub(q.targetHeightFactor, q.startHeightFactor), easedT))]

\* updatePillar adding the eased step to the current height instead of
\* setting the height from startHeightFactor (line 196)
updatePillar_accumulate(p, dt, freqMultiplier, ampMultiplier, currentTime) ==
    LET elapsed == Add(p.elapsedTime, dt)
        t == Div(elapsed, p.animationDuration)
        arrived == Le(One, t)
        q == IF arrived
             THEN [p EXCEPT !.startHeightFactor = p.targetHeightFactor,
                            !.targetHeightFactor =
                                waveTarget(p, freqMultiplier, ampMultiplier, currentTime),
                            !.elapsedTime = Zero]
             ELSE [p EXCEPT !.elapsedTime = elapsed]
        easedT == easeInOutQuad(IF arrived THEN Zero ELSE t)
    IN  [q EXCEPT !.currentHeightFactor =
            Add(p.currentHeightFactor,
                Mul(Sub(q.targetHeightFactor, q.startHeightFactor), easedT))]

\* updatePillar adding dt to a local copy only, elapsedTime itself never
\* advancing (line 170 with + in place of +=)
updatePillar_forgetElapsed(p, dt, freqMultiplier, ampMultiplier, currentTime) ==
    LET elapsed == Add(p.elapsedTime, dt)
        t == Div(elapsed, p.animationDuration)
        arrived == Le(One, t)
        q == IF arrived
             THEN [p EXCEPT !.startHeightFactor = p.targetHeightFactor,
                            !.targetHeightFactor =
                                waveTarget(p, freqMultiplier, ampMultiplier, currentTime),
                            !.elapsedTime = Zero]
             ELSE p
        easedT == easeInOutQuad(IF arrived THEN Zero ELSE t)
    IN  [q EXCEPT !.currentHeightFactor =
            Add(q.startHeightFactor,
                Mul(Sub(q.targetHeightFactor, q.startHeightFactor), easedT))]

\* lines 170-196: the body of the loop of updatePillars, for one pillar
updatePillar(p, dt, freqMultiplier, ampMultiplier, currentTime) ==
    LET elapsed == Add(p.elapsedTime, dt)
        t == Div(elapsed, p.animationDuration)
        arrived == Le(One, t)
        q == IF arrived
             THEN [p EXCEPT !.startHeightFactor = p.targetHeightFactor,
                            !.targetHeightFactor =
                                waveTarget(p, freqMultiplier, ampMultiplier, currentTime),
                            !.elapsedTime = Zero]
             ELSE [p EXCEPT !.elapsedTime = elapsed]
        easedT == easeInOutQuad(IF arrived THEN Zero ELSE t)
    IN  [q EXCEPT !.currentHeightFactor =
            Add(q.startHeightFactor,
                Mul(Sub(q.targetHeightFactor, q.startHeightFactor), easedT))]

updatePillars(ps, dt, freqMultiplier, ampMultiplier, currentTime) ==
    [i \in 1..Len(ps) |->
        updatePillar(ps[i], dt, freqMultiplier, ampMultiplier, currentTime)]

----------------------------------------------------------------------------
(* The cube mesh builder. *)

RECURSIVE newton(_, _)
\* Newton's iteration for the integer square root of n, downwards from x
newton(n, x) ==
    LET y == (x + n \div x) \div 2
    IN  IF y >= x THEN x ELSE newton(n, y)

\* the largest r with r * r <= n
isqrt(n) == IF n = 0 THEN 0 ELSE newton(n, n)

\* p5 sqrt.  Every length the mesh builder takes is that of the cross
\* product of two edges of an upright box turned by a sampled direction,
\* |edge| * |edge|, a rational; sqrt is defined on squares of rationals only.
sqrt(a) ==
    LET r == <<isqrt(a[1]), isqrt(a[2])>>
    IN  CHOOSE b \in {r} : Mul(b, b) = a

\* lines 221-238
computeNormal(p1, p2, p3) ==
    LET U == <<Sub(p2[1], p1[1]), Sub(p2[2], p1[2]), Sub(p2[3], p1[3])>>
        V == <<Sub(p3[1], p1[1]), Sub(p3[2], p1[2]), Sub(p3[3], p1[3])>>
        Nx == Sub(Mul(U[2], V[3]), Mul(U[3], V[2]))
        Ny == Sub(Mul(U[3], V[1]), Mul(U[1], V[3]))
        Nz == Sub(Mul(U[1], V[2]), Mul(U[2], V[1]))
        len == sqrt(Add(Add(Mul(Nx, Nx), Mul(Ny, Ny)), Mul(Nz, Nz)))
    IN  IF Lt(Zero, len)
        THEN <<Div(Nx, len), Div(Ny, len), Div(Nz, len)>>
        ELSE <<Nx, Ny, Nz>>

\* lines 287-299; the corner indices v1..v4 count from 0 as in the source
makeFace(corners, v1, v2, v3, v4, n) ==
    << corners[v1 + 1] \o n, corners[v2 + 1] \o n, corners[v3 + 1] \o n,
       corners[v1 + 1] \o n, corners[v3 + 1] \o n, corners[v4 + 1] \o n >>

\* lines 267-274
faces ==
    << <<0, 1, 2, 3>>, <<4, 5, 6, 7>>, <<0, 1, 5, 4>>,
       <<2, 3, 7, 6>>, <<0, 3, 7, 4>>, <<1, 2, 6, 5>> >>

RECURSIVE Flatten(_)
\* push(...list) for each list of a sequence of lists, in order
Flatten(lists) ==
    IF lists = <<>> THEN <<>> ELSE Head(lists) \o Flatten(Tail(lists))

\* lines 240-285
createCube(xOffset, yOffset, zOffset, heightFactor, angle) ==
    LET halfSize == Div(One, I(2))
        top == Mul(halfSize, heightFactor)
        box == << <<Neg(halfSize), Neg(halfSize), Neg(halfSize)>>,
                  <<halfSize, Neg(halfSize), Neg(halfSize)>>,
                  <<halfSize, top, Neg(halfSize)>>,
                  <<Neg(halfSize), top, Neg(halfSize)>>,
                  <<Neg(halfSize), Neg(halfSize), halfSize>>,
                  <<halfSize, Neg(halfSize), halfSize>>,
                  <<halfSize, top, halfSize>>,
                  <<Neg(halfSize), top, halfSize>> >>
        cosA == cos(angle)
        sinA == sin(angle)
        corners == [i \in 1..8 |->
                      LET c == box[i]
                          X == Sub(Mul(c[1], cosA), Mul(c[3], sinA))
                          Z == Add(Mul(c[1], sinA), Mul(c[3], cosA))
                      IN  <<Add(X, xOffset), Add(c[2], yOffset), Add(Z, zOffset)>>]
    IN  Flatten([f \in 1..6 |->
            LET face == faces[f]
                n == computeNormal(corners[face[1] + 1], corners[face[2] + 1],
                                   corners[face[3] + 1])
            IN  makeFace(corners, face[1], face[2], face[3], face[4], n)])

----------------------------------------------------------------------------
(* The palette of the sketch and the palette blend of the fragment shader. *)

\* src/sketch.js lines 211-214
rgbToFloat(r, g, b) == <<R(r, 255), R(g, 255), R(b, 255)>>

\* src/sketch.js lines 156-162
palette ==
    << rgbToFloat(255, 0, 0), rgbToFloat(255, 242, 0), rgbToFloat(0, 255, 8),
       rgbToFloat(0, 255, 238), rgbToFloat(111, 0, 255) >>

\* src/sketch.js line 163 on the shader's `uniform vec3 u_color[9]`: the five
\* palette colours fill u_color[0..4]; u_color[5..8] keep what they held
\* (unset holds the four of them).
setUniform_u_color(colors, unset) == colors \o unset

\* GLSL clamp, smoothstep and mix (on vec3, component by component)
clamp(x, lo, hi) == IF Lt(x, lo) THEN lo ELSE IF Lt(hi, x) THEN hi ELSE x

smoothstep(edge0, edge1, x) ==
    LET t == clamp(Div(Sub(x, edge0), Sub(edge1, edge0)), Zero, One)
    IN  Mul(Mul(t, t), Sub(I(3), Mul(I(2), t)))

mix(a, b, s) ==
    [k \in 1..3 |-> Add(Mul(a[k], Sub(One, s)), Mul(b[k], s))]

\* u_color[i] as the shader reads it: the array has 9 elements, and what a
\* read of u_color[9] gives is undefined (outOfRange stands for it)
uColorAt(u_color, outOfRange, i) ==
    IF i < Len(u_color) THEN u_color[i + 1] ELSE outOfRange

RECURSIVE blendLoop(_, _, _, _, _)
\* src/fragment.frag lines 93-100: the passes i, i + 1, ..., 8 of the loop
blendLoop(baseColor, u_color, outOfRange, x, i) ==
    IF i >= 9 THEN baseColor
    ELSE LET color_gap == Div(One, I(5))
         IN  blendLoop(mix(baseColor,
                           uColorAt(u_color, outOfRange, i + 1),
                           smoothstep(Mul(color_gap, I(i)), Mul(color_gap, I(i + 1)), x)),
                       u_color, outOfRange, x, i + 1)

\* src/fragment.frag lines 89-102: baseColor after the wrap-around mix, for
\* panning_vUv.x = x
paletteBlend(u_color, outOfRange, x) ==
    LET color_gap == Div(One, I(5))
        looped == blendLoop(u_color[1], u_color, outOfRange, x, 0)
    IN  mix(looped, u_color[1],
            smoothstep(Mul(color_gap, I(4)), Mul(color_gap, I(5)), x))

----------------------------------------------------------------------------
(* State. *)

VARIABLES
    pillars,         \* the global array of pillar objects
    frameCount,      \* the number of updatePillars calls made so far
    pc,              \* where draw() stands: "update" (line 43) or "build" (line 65)
    dt,              \* dt of the latest updatePillars call
    freqMultiplier,  \* freqMultiplier of the latest updatePillars call
    ampMultiplier,   \* ampMultiplier of the latest updatePillars call
    updateTime,      \* currentTime as read by the latest updatePillars call
    mouseX,          \* the pointer's x as read by draw in this frame
    drawTime,        \* draw's currentTime (line 64) in this frame
    next,            \* the pillar the loop of lines 65-72 takes next
    allVertices,     \* draw's allVertices
    shapes,          \* the shapes submitted (beginShape .. endShape) in this frame
    args,            \* the arguments of a function called on its own
    result           \* what that function returned, <<>> before the call

vars == <<pillars, frameCount, pc, dt, freqMultiplier, ampMultiplier, updateTime,
          mouseX, drawTime, next, allVertices, shapes, args, result>>

drawVars == <<mouseX, drawTime, next, allVertices, shapes>>

callVars == <<args, result>>

schedulerVars == <<pillars, frameCount, pc, dt, freqMultiplier, ampMultiplier, updateTime>>

\* The number of updatePillars calls (frames) explored.
MaxFrames == 3

----------------------------------------------------------------------------
(* The random number generator.  The sketch sets no seed, so the stream of *)
(* values in [0, 1) is arbitrary; the model takes it from a full-period    *)
(* linear congruential generator with eight states, whose output is the    *)
(* high bit of the state (0 or 1/2), started in any state.                 *)

Seeds == 0..7

RECURSIVE lcg(_, _)
lcg(seed, k) == IF k = 0 THEN seed ELSE (5 * lcg(seed, k - 1) + 3) % 8

\* the k-th value drawn (k = 0, 1, ...) from the generator started at seed
rand(seed, k) == R(lcg(seed, k) \div 4, 2)

\* lines 106-132: three values are drawn for each pillar, in row-major order
initPillars(seed) ==
    [k \in 1..(rows * cols) |->
        LET row == (k - 1) \div cols
            col == (k - 1) % cols
            x == Sub(Mul(I(col), I(spacing)), Div(Mul(I(cols), I(spacing)), I(2)))
            z == Sub(Mul(I(row), I(spacing)), Div(Mul(I(rows), I(spacing)), I(2)))
            startH == Neg(random(One, I(maxHeight), rand(seed, 3 * (k - 1))))
            targetH == Neg(random(One, I(maxHeight), rand(seed, 3 * (k - 1) + 1)))
            animationDuration ==
                random(<<1, 10>>, <<33, 100>>, rand(seed, 3 * (k - 1) + 2))
        IN  [x |-> x,
             z |-> z,
             startHeightFactor |-> startH,
             targetHeightFactor |-> targetH,
             currentHeightFactor |-> startH,
             elapsedTime |-> Zero,
             animationDuration |-> animationDuration]]

Init ==
    /\ \E seed \in Seeds : pillars = initPillars(seed)
    /\ frameCount = 0
    /\ pc = "update"
    /\ dt = Zero
    /\ freqMultiplier = One
    /\ ampMultiplier = One
    /\ updateTime = Zero
    /\ mouseX = Zero
    /\ drawTime = Zero
    /\ next = 1
    /\ allVertices = <<>>
    /\ shapes = <<>>
    /\ args = <<>>
    /\ result = <<>>

----------------------------------------------------------------------------
(* The scheduler driven directly: any sequence of updatePillars calls.     *)

\* dt: none, a quarter and a half of the longer sampled duration (43/200),
\* and a second, which spans several durations of every pillar.
DeltaTimes == {Zero, <<1, 20>>, <<43, 400>>, One}
\* <<freqMultiplier, ampMultiplier>>: both ends of [0.1, 3.0] x [0.1, 1.0]
WaveParams == {<< <<1, 10>>, <<1, 10>> >>, <<I(3), One>>}
\* millis() / 1000
Times == {Zero, <<3, 10>>}

UpdateCall ==
    /\ pc = "update"
    /\ frameCount < MaxFrames
    /\ \E d \in DeltaTimes, w \in WaveParams, now \in Times :
          /\ dt' = d
          /\ freqMultiplier' = w[1]
          /\ ampMultiplier' = w[2]
          /\ updateTime' = now
          /\ pillars' = updatePillars(pillars, d, w[1], w[2], now)
    /\ frameCount' = frameCount + 1
    /\ pc' = "update"
    /\ UNCHANGED <<drawVars, callVars>>

Next == UpdateCall

Spec == Init /\ [][Next]_vars

----------------------------------------------------------------------------
(* The scheduler in a sketch that keeps running: the host calls draw, and  *)
(* draw calls updatePillars (line 61), frame after frame without end, and  *)
(* every frame takes some time, deltaTime > 0.  Of the number of calls     *)
(* made, frameCount keeps the parity, so that the states stay finite.      *)

\* dt bounded below by 1/20: a quarter and a half of the longer sampled
\* duration, and a second
LiveDeltaTimes == DeltaTimes \ {Zero}

\* <<freqMultiplier, ampMultiplier>> while the mouse rests in the lower right
\* corner of the canvas (lines 55 and 57)
LiveWaveParams == {<<I(3), One>>}

LiveUpdateCall ==
    /\ pc = "update"
    /\ \E d \in LiveDeltaTimes, w \in LiveWaveParams, now \in Times :
          /\ dt' = d
          /\ freqMultiplier' = w[1]
          /\ ampMultiplier' = w[2]
          /\ updateTime' = now
          /\ pillars' = updatePillars(pillars, d, w[1], w[2], now)
    /\ frameCount' = 1 - frameCount
    /\ pc' = "update"
    /\ UNCHANGED <<drawVars, callVars>>

NextLive == LiveUpdateCall

\* The host starts another frame.  Every step of LiveUpdateCall is such a
\* step, and NextLive allows no other, so that fairness for FrameArrives is
\* fairness for LiveUpdateCall, stated on the part of the step that decides
\* whether a frame was taken.
FrameArrives ==
    /\ pc = "update"
    /\ frameCount' = 1 - frameCount

\* frames keep arriving
SpecLive == Init /\ [][NextLive]_vars /\ WF_frameCount(FrameArrives)

----------------------------------------------------------------------------
(* The frame loop: draw(), called by the host once per frame.              *)

\* The number of frames explored.
MaxDrawFrames == 2

\* the canvas, createCanvas(windowWidth, windowHeight) (line 31), in pixels
width == I(800)
height == I(600)

\* deltaTime / 1000: none, half of the longer sampled duration, a second
DrawDeltaTimes == {Zero, <<43, 400>>, One}
\* <<mouseX, mouseY>>: two opposite corners of the canvas
MousePositions == {<<Zero, Zero>>, <<width, height>>}

\* lines 67-69 building the cube from the height the pillar is heading to
cubeOf_targetHeight(p, currentTime, mx) ==
    LET angle == Add(Add(Mul(Add(p.x, p.z), <<1, 10>>), Mul(currentTime, I(2))),
                     Mul(mx, <<1, 100>>))
    IN  createCube(p.x, Zero, p.z, p.targetHeightFactor, angle)

\* lines 67-69: the cube of pillar p
cubeOf(p, currentTime, mx) ==
    LET angle == Add(Add(Mul(Add(p.x, p.z), <<1, 10>>), Mul(currentTime, I(2))),
                     Mul(mx, <<1, 100>>))
    IN  createCube(p.x, Zero, p.z, p.currentHeightFactor, angle)

\* lines 43-64: background() clears the canvas, the inputs of the frame are
\* read and updatePillars runs over the whole grid
Draw_Update ==
    /\ pc = "update"
    /\ frameCount < MaxDrawFrames
    /\ \E d \in DrawDeltaTimes, mouse \in MousePositions, now \in Times :
          /\ dt' = d
          /\ mouseX' = mouse[1]
          /\ freqMultiplier' = map(mouse[1], Zero, width, <<1, 10>>, I(3))
          /\ ampMultiplier' = map(mouse[2], Zero, height, <<1, 10>>, One)
          /\ updateTime' = now
          /\ pillars' = updatePillars(pillars, d, freqMultiplier', ampMultiplier', now)
          /\ drawTime' = now
    /\ frameCount' = frameCount + 1
    /\ shapes' = <<>>
    /\ allVertices' = <<>>
    /\ next' = 1
    /\ pc' = "build"
    /\ UNCHANGED callVars

\* lines 65-72: one pass of the loop over the pillars
Draw_CreateCube ==
    /\ pc = "build"
    /\ next <= Len(pillars)
    /\ allVertices' = allVertices \o cubeOf(pillars[next], drawTime, mouseX)
    /\ next' = next + 1
    /\ UNCHANGED <<schedulerVars, mouseX, drawTime, shapes, callVars>>

\* lines 75 and 200-209: one shape, every vertex of allVertices in order
drawPillars(vertices) ==
    [i \in 1..Len(vertices) |->
        [normal |-> SubSeq(vertices[i], 4, 6), vertex |-> SubSeq(vertices[i], 1, 3)]]

Draw_DrawPillars ==
    /\ pc = "build"
    /\ next > Len(pillars)
    /\ shapes' = Append(shapes, drawPillars(allVertices))
    /\ pc' = "update"
    /\ UNCHANGED <<pillars, frameCount, dt, freqMultiplier, ampMultiplier, updateTime,
                   mouseX, drawTime, next, allVertices, callVars>>

NextDraw == Draw_Update \/ Draw_CreateCube \/ Draw_DrawPillars

SpecDraw == Init /\ [][NextDraw]_vars

----------------------------------------------------------------------------
(* The functions called on their own, with arguments from bounded sets.    *)

\* easeInOutQuad is called at the multiples of 1 / (2 * EaseSteps) in [0, 1]
EaseSteps == 10
\* the sine and cosine terms range over the multiples of 1 / WaveSteps in [-1, 1]
WaveSteps == 2
\* panning_vUv.x ranges over the multiples of 1 / (5 * PaletteSteps) in [0, 1)
PaletteSteps == 4

black == <<Zero, Zero, Zero>>
white == <<One, One, One>>

EaseArgs ==
    [fn : {"easeInOutQuad"},
     a : {R(k, 2 * EaseSteps) : k \in 0..(2 * EaseSteps)},
     b : {R(k, 2 * EaseSteps) : k \in 0..(2 * EaseSteps)}]

WaveArgs ==
    [fn : {"combinedWave"},
     sin1 : {R(k, WaveSteps) : k \in (-WaveSteps)..WaveSteps},
     sin2 : {R(k, WaveSteps) : k \in (-WaveSteps)..WaveSteps},
     cos3 : {R(k, WaveSteps) : k \in (-WaveSteps)..WaveSteps},
     ampMultiplier : {<<1, 10>>, <<11, 20>>, One}]

CubeArgs ==
    [fn : {"createCube"},
     xOffset : {I(-1), Zero},
     zOffset : {<<-1, 2>>, Zero},
     heightFactor : {One, I(-1), I(-13), <<-85, 4>>},
     angle : {Zero, One, <<3, 2>>, I(8)}]

BlendArgs ==
    [fn : {"paletteBlend"},
     unset : [1..4 -> {black, white}],
     outOfRange : {black, white},
     x : {R(k, 5 * PaletteSteps) : k \in 0..(5 * PaletteSteps - 1)}]

InitCalls ==
    /\ args \in EaseArgs \cup WaveArgs \cup CubeArgs \cup BlendArgs
    /\ result = <<>>
    /\ pillars = <<>>
    /\ frameCount = 0
    /\ pc = "call"
    /\ dt = Zero
    /\ freqMultiplier = One
    /\ ampMultiplier = One
    /\ updateTime = Zero
    /\ mouseX = Zero
    /\ drawTime = Zero
    /\ next = 1
    /\ allVertices = <<>>
    /\ shapes = <<>>

EaseCall ==
    /\ pc = "call"
    /\ args.fn = "easeInOutQuad"
    /\ result' = <<easeInOutQuad(args.a), easeInOutQuad(args.b)>>
    /\ pc' = "returned"
    /\ UNCHANGED <<pillars, frameCount, dt, freqMultiplier, ampMultiplier, updateTime,
                   drawVars, args>>

WaveCall ==
    /\ pc = "call"
    /\ args.fn = "combinedWave"
    /\ LET combined == combinedWave(args.sin1, args.sin2, args.cos3, args.ampMultiplier)
       IN  result' = <<combined, targetOf(combined)>>
    /\ pc' = "returned"
    /\ UNCHANGED <<pillars, frameCount, dt, freqMultiplier, ampMultiplier, updateTime,
                   drawVars, args>>

CubeCall ==
    /\ pc = "call"
    /\ args.fn = "createCube"
    /\ result' = createCube(args.xOffset, Zero, args.zOffset, args.heightFactor, args.angle)
    /\ pc' = "returned"
    /\ UNCHANGED <<pillars, frameCount, dt, freqMultiplier, ampMultiplier, updateTime,
                   drawVars, args>>

BlendCall ==
    /\ pc = "call"
    /\ args.fn = "paletteBlend"
    /\ result' = paletteBlend(setUniform_u_color(palette, args.unset),
                              args.outOfRange, args.x)
    /\ pc' = "returned"
    /\ UNCHANGED <<pillars, frameCount, dt, freqMultiplier, ampMultiplier, updateTime,
                   drawVars, args>>

NextCalls == EaseCall \/ WaveCall \/ CubeCall \/ BlendCall

SpecCalls == InitCalls /\ [][NextCalls]_vars

----------------------------------------------------------------------------
(* Claims about the scheduler, checked under Spec. *)

\* elapsedTime / animationDuration of pillar p
Fraction(p) == Div(p.elapsedTime, p.animationDuration)

\* whether a call with time step d finds pillar p arrived (t >= 1.0)
Arrives(p, d) == Le(One, Div(Add(p.elapsedTime, d), p.animationDuration))

\* C1: in every state reached by initPillars and updatePillars calls with
\* dt >= 0, each pillar's currentHeightFactor is the eased interpolation
\* start + (target - start) * easeInOutQuad(elapsedTime / animationDuration),
\* and that fraction lies in [0, 1].
C1_EasedInterpolation ==
    \A i \in DOMAIN pillars :
        LET p == pillars[i]
        IN  /\ Le(Zero, Fraction(p))
            /\ Le(Fraction(p), One)
            /\ p.currentHeightFactor =
                   Add(p.startHeightFactor,
                       Mul(Sub(p.targetHeightFactor, p.startHeightFactor),
                           easeInOutQuad(Fraction(p))))

\* a pillar strictly inside its transition, its height strictly between
\* start and target
C1_Witness ==
    /\ frameCount > 0
    /\ \E i \in DOMAIN pillars :
          /\ Lt(Zero, Fraction(pillars[i]))
          /\ Lt(Fraction(pillars[i]), One)
          /\ pillars[i].currentHeightFactor # pillars[i].startHeightFactor
          /\ pillars[i].currentHeightFactor # pillars[i].targetHeightFactor

\* C2: every pillar's currentHeightFactor stays within [-maxHeight, 0].
C2_HeightWithinBounds ==
    \A i \in DOMAIN pillars :
        /\ Le(I(-maxHeight), pillars[i].currentHeightFactor)
        /\ Le(pillars[i].currentHeightFactor, Zero)

\* a pillar on its way between two targets computed from the waves
C2_Witness ==
    /\ frameCount = MaxFrames
    /\ \E i \in DOMAIN pillars :
          /\ Lt(Zero, pillars[i].elapsedTime)
          /\ pillars[i].startHeightFactor \notin {I(-1), I(-13)}
          /\ pillars[i].targetHeightFactor \notin {I(-1), I(-13)}
          /\ pillars[i].currentHeightFactor # pillars[i].startHeightFactor

\* C3: a call that finds a pillar arrived (t >= 1) leaves its elapsedTime
\* 0, its startHeightFactor the target it had before the call, and its
\* currentHeightFactor equal to that startHeightFactor.
C3_RetargetResets ==
    [][\A i \in DOMAIN pillars :
          Arrives(pillars[i], dt') =>
              /\ pillars'[i].elapsedTime = Zero
              /\ pillars'[i].startHeightFactor = pillars[i].targetHeightFactor
              /\ pillars'[i].currentHeightFactor = pillars'[i].startHeightFactor]_vars

\* a call with dt > 0 has just retargeted a pillar: its time is back at 0
\* and its height is the target it arrived at
C3_Witness ==
    /\ frameCount >= 2
    /\ Lt(Zero, dt)
    /\ \E i \in DOMAIN pillars :
          /\ pillars[i].elapsedTime = Zero
          /\ pillars[i].currentHeightFactor = pillars[i].startHeightFactor
          /\ pillars[i].startHeightFactor # pillars[i].targetHeightFactor

\* C4: a call retargets a pillar at most once however large dt is: the
\* start becomes the old target, the target is the one wave value of this
\* call, and elapsedTime is 0 (the surplus is dropped).
C4_SingleRetargetPerCall ==
    [][\A i \in DOMAIN pillars :
          Arrives(pillars[i], dt') =>
              /\ pillars'[i].startHeightFactor = pillars[i].targetHeightFactor
              /\ pillars'[i].targetHeightFactor =
                     waveTarget(pillars[i], freqMultiplier', ampMultiplier', updateTime')
              /\ pillars'[i].elapsedTime = Zero]_vars

\* the latest call had a dt of at least twice every pillar's duration, and
\* every pillar starts its next transition from time 0
C4_Witness ==
    /\ frameCount >= 1
    /\ \A i \in DOMAIN pillars :
          /\ Le(Mul(I(2), pillars[i].animationDuration), dt)
          /\ pillars[i].elapsedTime = Zero

\* C5: a call with dt = 0 changes no field of any pillar.
C5_ZeroDtNoOp ==
    [][dt' = Zero => pillars' = pillars]_vars

\* a call with dt = 0 was made on a pillar part-way through its transition
C5_Witness ==
    /\ frameCount >= 2
    /\ dt = Zero
    /\ \E i \in DOMAIN pillars :
          /\ Lt(Zero, pillars[i].elapsedTime)
          /\ pillars[i].currentHeightFactor # pillars[i].startHeightFactor

----------------------------------------------------------------------------
(* Claims about the functions, checked under SpecCalls. *)

Returned(fn) == pc = "returned" /\ args.fn = fn

\* C6: whatever values in [-1, 1] the sine and cosine terms take and whatever
\* ampMultiplier in [0.1, 1.0], the averaged wave value `combined` lies in
\* [0, 1] and the targetHeightFactor -combined * maxHeight in [-maxHeight, 0].
C6_TargetWithinBounds ==
    Returned("combinedWave") =>
        /\ Le(Zero, result[1])
        /\ Le(result[1], One)
        /\ Le(I(-maxHeight), result[2])
        /\ Le(result[2], Zero)

\* the three terms at -1 with the largest amplitude: the lowest average,
\* 0.15, and the highest target, -3.75
C6_Witness ==
    /\ Returned("combinedWave")
    /\ args.sin1 = I(-1)
    /\ args.sin2 = I(-1)
    /\ args.cos3 = I(-1)
    /\ args.ampMultiplier = One
    /\ result = << <<3, 20>>, <<-15, 4>> >>

\* the normal of face f (1..6) of a list of 36 vertex records
FaceNormal(verts, f) == SubSeq(verts[6 * (f - 1) + 1], 4, 6)

AxisNormals ==
    { <<I(1), Zero, Zero>>, <<I(-1), Zero, Zero>>, <<Zero, I(1), Zero>>,
      <<Zero, I(-1), Zero>>, <<Zero, Zero, I(1)>>, <<Zero, Zero, I(-1)>> }

\* C7: createCube with centre (0, 0, 0), heightFactor 1.0 and angle 0 returns
\* 36 vertex records whose 6 faces carry 6 pairwise distinct normals, exactly
\* the axis-aligned unit vectors +-(1,0,0), +-(0,1,0), +-(0,0,1).
C7_UnitCubeNormals ==
    ( /\ Returned("createCube")
      /\ args.xOffset = Zero
      /\ args.zOffset = Zero
      /\ args.heightFactor = One
      /\ args.angle = Zero )
    => /\ Len(result) = 36
       /\ \A f, g \in 1..6 : f # g => FaceNormal(result, f) # FaceNormal(result, g)
       /\ {FaceNormal(result, f) : f \in 1..6} = AxisNormals

\* C8: for every panning_vUv.x in [0, 1) the blended baseColor does not depend
\* on the unset slots u_color[5..8]: it is what the blend gives with those
\* slots at zero, whatever they hold.
C8_UnsetSlotsUnused ==
    Returned("paletteBlend") =>
        result = paletteBlend(setUniform_u_color(palette, [k \in 1..4 |-> black]),
                              args.outOfRange, args.x)

\* C9: easeInOutQuad maps 0 to 0, 0.5 to 0.5 and 1 to 1, is monotonic
\* non-decreasing on [0, 1], and its values there stay in [0, 1].
C9_EaseBoundaryMonotone ==
    Returned("easeInOutQuad") =>
        /\ args.a = Zero => result[1] = Zero
        /\ args.a = Half => result[1] = Half
        /\ args.a = One => result[1] = One
        /\ Le(args.a, args.b) => Le(result[1], result[2])
        /\ Le(Zero, result[1])
        /\ Le(result[1], One)

\* two arguments on either side of the change of branch at 0.5
C9_Witness ==
    /\ Returned("easeInOutQuad")
    /\ Lt(Zero, args.a)
    /\ Lt(args.a, Half)
    /\ Lt(Half, args.b)
    /\ Lt(args.b, One)
    /\ Lt(result[1], result[2])

----------------------------------------------------------------------------
(* Claims about the frame loop, checked under SpecDraw. *)

\* the 36 vertex records of the i-th cube of a vertex list
CubeRecords(verts, i) == SubSeq(verts, 36 * (i - 1) + 1, 36 * i)

\* Whether the 36 records c are a cube built for pillar p at its current
\* height: the top corners (indices 2, 3, 6, 7 of createCube) lie at
\* 0.5 * currentHeightFactor, the bottom corners at -0.5, and the opposite
\* corners 0 and 6 are centred on (p.x, p.z).
BuiltFor(c, p) ==
    /\ Len(c) = 36
    /\ c[3][2] = Mul(Half, p.currentHeightFactor)
    /\ c[9][2] = Mul(Half, p.currentHeightFactor)
    /\ c[1][2] = <<-1, 2>>
    /\ Add(c[1][1], c[9][1]) = Mul(I(2), p.x)
    /\ Add(c[1][3], c[9][3]) = Mul(I(2), p.z)

\* C10: in every frame updatePillars has run over the whole grid before any
\* cube is built and the pillars do not change while the cubes are built,
\* each cube is built from its pillar's currentHeightFactor of that frame,
\* one shape of 36 * rows * cols vertices in pillar order is submitted, and
\* the number of pillars stays rows * cols.
C10_FramePipeline ==
    /\ [](/\ Len(pillars) = rows * cols
          /\ pc = "build" =>
                /\ shapes = <<>>
                /\ Len(allVertices) = 36 * (next - 1)
                /\ \A i \in 1..(next - 1) :
                      BuiltFor(CubeRecords(allVertices, i), pillars[i])
          /\ (pc = "update" /\ frameCount > 0) =>
                /\ Len(shapes) = 1
                /\ Len(shapes[1]) = 36 * rows * cols
                /\ shapes[1] = drawPillars(allVertices)
                /\ \A i \in 1..(rows * cols) :
                      BuiltFor(CubeRecords(allVertices, i), pillars[i]))
    /\ [][/\ pc = "build" => pillars' = pillars
          /\ Len(pillars') = Len(pillars)
          /\ pc' = "build" => (pc = "build" \/ allVertices' = <<>>)]_vars

\* the second frame is complete, its shape submitted, with a pillar drawn
\* part-way between its start and its target
C10_Witness ==
    /\ pc = "update"
    /\ frameCount = 2
    /\ Len(shapes) = 1
    /\ Len(shapes[1]) = 36 * rows * cols
    /\ \E i \in DOMAIN pillars :
          /\ pillars[i].currentHeightFactor # pillars[i].startHeightFactor
          /\ pillars[i].currentHeightFactor # pillars[i].targetHeightFactor
          /\ allVertices[36 * (i - 1) + 3][2] = Mul(Half, pillars[i].currentHeightFactor)

----------------------------------------------------------------------------
(* Claims about the running sketch, checked under SpecLive. *)

\* the call now made retargets pillar k: its time is up, it stands at the
\* target it had, which becomes its start, and its clock restarts
Retargets(k) ==
    /\ Le(pillars[k].animationDuration, Add(pillars[k].elapsedTime, dt'))
    /\ pillars'[k].elapsedTime = Zero
    /\ pillars'[k].startHeightFactor = pillars[k].targetHeightFactor
    /\ pillars'[k].currentHeightFactor = pillars[k].targetHeightFactor

\* C11: when frames keep arriving and every updatePillars call has dt
\* bounded below by a positive value, every pillar retargets infinitely
\* often: again and again a call finds its elapsedTime at or past its
\* animationDuration and leaves it at the target it had before the call,
\* with elapsedTime 0; no pillar stays short of its animationDuration forever.
C11_RetargetsInfinitelyOften ==
    \A k \in 1..(rows * cols) :
        /\ []<><<Retargets(k)>>_vars
        /\ []<>(dt # Zero /\ pillars[k].elapsedTime = Zero
                /\ pillars[k].currentHeightFactor = pillars[k].startHeightFactor)

\* every pillar has just been retargeted by a call with dt > 0, and not for
\* the first time: none still starts from a height initPillars drew
C11_Witness ==
    /\ dt # Zero
    /\ \A k \in DOMAIN pillars :
          /\ pillars[k].elapsedTime = Zero
          /\ pillars[k].currentHeightFactor = pillars[k].startHeightFactor
          /\ pillars[k].startHeightFactor \notin {I(-1), I(-13)}
    /\ \E k \in DOMAIN pillars : pillars[k].animationDuration = <<43, 200>>

====
